---- MODULE Spec2Model ----
(***************************************************************************)
(* RGB Simple Communication (src/rgb-simple-comm.c).                       *)
(*                                                                         *)
(* A clockless line code over the 8 colours of an RGB LED.  Every 2 bits   *)
(* are sent as a transition from the previous colour to one of five data   *)
(* colours; a byte is four such transitions followed by a mark colour.     *)
(* The module models the two half-nibble functions, the byte encoder, the  *)
(* byte decoder and the buffers and cursors they work on.                  *)
(***************************************************************************)
EXTENDS Integers, Sequences, FiniteSets, TLC

(***************************************************************************)
(* rgb_colour_t                                                            *)
(***************************************************************************)
DARK == 0
BLUE == 1
GREEN == 2
CYAN == 3
RED == 4
MAGENTA == 5
YELLOW == 6
WHITE == 7

Colours == DARK..WHITE

DataColours == {BLUE, GREEN, CYAN, RED, MAGENTA}

MarkColours == {YELLOW, WHITE}

(***************************************************************************)
(* Bounds of the model.                                                    *)
(***************************************************************************)
\* Number of bytes the transmitter encodes into one colour sequence.
MaxBytes == 3

\* Number of leading buffer positions that hold arbitrary received colours.
RxLen == 5

\* Largest number of extra (no-change) observations of one colour.
MaxDup == 2

\* Capacity of the colour sequence: rgb_colour_t colourSeq[100].
SeqCap == 100

\* Bytes the transmitter of the multi-byte specification draws from:
\* 0x00, 0x1B (chunks 0,1,2,3), 'H', 'I', 0xE4 (chunks 3,2,1,0), 0xFF.
InputBytes == {0, 27, 72, 73, 228, 255}

\* Every value of a uint8_t.
UInt8 == 0..255

(***************************************************************************)
(* Bit operations on uint8_t values.                                       *)
(***************************************************************************)
RECURSIVE BitOr(_, _)
BitOr(a, b) ==
    IF a = 0 THEN b
    ELSE IF b = 0 THEN a
    ELSE (IF (a % 2 = 1) \/ (b % 2 = 1) THEN 1 ELSE 0)
         + 2 * BitOr(a \div 2, b \div 2)

\* (uint8_t)(x << 1), the output shifted by one bit (mutant).
ShiftLeft1(x) == (x * 2) % 256

\* (uint8_t)(x << 2)
ShiftLeft2(x) == (x * 4) % 256

(***************************************************************************)
(* ENCODE                                                                  *)
(***************************************************************************)
\* The switch on previous_colour of nextColourSeq_from_2bit.
offset_from_2bit_norotate(previous_colour) ==
    CASE previous_colour = DARK    -> 0
      [] previous_colour = BLUE    -> 0
      [] previous_colour = GREEN   -> 1
      [] previous_colour = CYAN    -> 2
      [] previous_colour = RED     -> 3
      [] previous_colour = MAGENTA -> 4
      [] previous_colour = YELLOW  -> 0
      [] previous_colour = WHITE   -> 0

offset_from_2bit(previous_colour) ==
    CASE previous_colour = DARK    -> 0
      [] previous_colour = BLUE    -> 1
      [] previous_colour = GREEN   -> 2
      [] previous_colour = CYAN    -> 3
      [] previous_colour = RED     -> 4
      [] previous_colour = MAGENTA -> 5
      [] previous_colour = YELLOW  -> 0
      [] previous_colour = WHITE   -> 0

\* halfByteColour[5], indexed from 0 in the program and from 1 here.
halfByteColour == <<BLUE, GREEN, CYAN, RED, MAGENTA>>

nextColourSeq_from_2bit(halfnibble, previous_colour) ==
    LET guarded == halfnibble % 4
        offset  == offset_from_2bit(previous_colour)
    IN halfByteColour[((guarded + offset) % 5) + 1]

\* (input >> 2 * (3 - i)) & 0x3, least significant chunk first (mutant).
half_nibble_lsb_first(input, i) == (input \div (4 ^ i)) % 4

\* (input >> (3 - i)) & 0x3, the shift not doubled (mutant).
half_nibble_shift1(input, i) == (input \div (2 ^ (3 - i))) % 4

\* (input >> 2 * (3 - i)) & 0x3
half_nibble(input, i) == (input \div (4 ^ (3 - i))) % 4

\* The data loop of toColourSeq_uint8, from iteration i on.
RECURSIVE toColourSeq_data(_, _, _, _, _)
toColourSeq_data(input, seq, jj, previous_colour, i) ==
    IF i >= 4 THEN [seq |-> seq, j |-> jj]
    ELSE LET c == nextColourSeq_from_2bit(half_nibble(input, i), previous_colour)
         IN toColourSeq_data(input, [seq EXCEPT ![jj] = c], jj + 1, c, i + 1)

\* toColourSeq_uint8 that leaves the cursor on the mark (mutant).
toColourSeq_uint8_cursor_on_mark(input, seq, seq_ptr) ==
    LET previous_colour == IF seq_ptr = 0 THEN DARK ELSE seq[seq_ptr - 1]
        d == toColourSeq_data(input, seq, seq_ptr, previous_colour, 0)
    IN [seq |-> [d.seq EXCEPT ![d.j] = WHITE], ptr |-> d.j]

\* toColourSeq_uint8 that ends the word with Mark 2 (mutant).
toColourSeq_uint8_mark2(input, seq, seq_ptr) ==
    LET previous_colour == IF seq_ptr = 0 THEN DARK ELSE seq[seq_ptr - 1]
        d == toColourSeq_data(input, seq, seq_ptr, previous_colour, 0)
    IN [seq |-> [d.seq EXCEPT ![d.j] = YELLOW], ptr |-> d.j + 1]

\* toColourSeq_uint8: the new sequence and the new *seq_ptr.
toColourSeq_uint8(input, seq, seq_ptr) ==
    LET previous_colour == IF seq_ptr = 0 THEN DARK ELSE seq[seq_ptr - 1]
        d == toColourSeq_data(input, seq, seq_ptr, previous_colour, 0)
    IN [seq |-> [d.seq EXCEPT ![d.j] = WHITE], ptr |-> d.j + 1]

(***************************************************************************)
(* DECODE                                                                  *)
(***************************************************************************)
\* The decoder's offset switch with the mark YELLOW rotating the data cycle
\* like a data colour (mutant).
offset_to_2bit_mark2_rotates(previous_colour) ==
    CASE previous_colour = DARK    -> 0
      [] previous_colour = BLUE    -> 1
      [] previous_colour = GREEN   -> 2
      [] previous_colour = CYAN    -> 3
      [] previous_colour = RED     -> 4
      [] previous_colour = MAGENTA -> 5
      [] previous_colour = YELLOW  -> 1
      [] previous_colour = WHITE   -> 0

\* The switch on previous_colour of nextColourSeq_to_2bit.
offset_to_2bit(previous_colour) ==
    CASE previous_colour = DARK    -> 0
      [] previous_colour = BLUE    -> 1
      [] previous_colour = GREEN   -> 2
      [] previous_colour = CYAN    -> 3
      [] previous_colour = RED     -> 4
      [] previous_colour = MAGENTA -> 5
      [] previous_colour = YELLOW  -> 0
      [] previous_colour = WHITE   -> 0

\* The data cases of the switch on incoming_colour.
nibblebase_of(incoming_colour) ==
    CASE incoming_colour = BLUE    -> 0
      [] incoming_colour = GREEN   -> 1
      [] incoming_colour = CYAN    -> 2
      [] incoming_colour = RED     -> 3
      [] incoming_colour = MAGENTA -> 4

\* The tail of nextColourSeq_to_2bit with 4 added where the difference is
\* negative, as if the data cycle had four colours (mutant).
halfnibble_of_plus4(nibblebase, offset) ==
    LET halfnibble == IF nibblebase >= offset
                      THEN (nibblebase - offset) % 4
                      ELSE (4 + nibblebase - offset) % 4
    IN halfnibble % 4

\* The tail of nextColourSeq_to_2bit for a data colour: the value written
\* to *halfnibble_out.
halfnibble_of(nibblebase, offset) ==
    LET halfnibble == IF nibblebase >= offset
                      THEN (nibblebase - offset) % 4
                      ELSE (5 + nibblebase - offset) % 4
    IN halfnibble % 4

\* nextColourSeq_to_2bit without the sign check: the subtraction wraps in
\* the unsigned 8-bit variable (mutant).
nextColourSeq_to_2bit_wrap(incoming_colour, previous_colour, halfnibble_out) ==
    IF incoming_colour = previous_colour THEN [rc |-> -1, out |-> halfnibble_out]
    ELSE IF incoming_colour = DARK THEN [rc |-> -2, out |-> halfnibble_out]
    ELSE IF incoming_colour = YELLOW THEN [rc |-> 2, out |-> halfnibble_out]
    ELSE IF incoming_colour = WHITE THEN [rc |-> 1, out |-> halfnibble_out]
    ELSE [rc  |-> 0,
          out |-> (((nibblebase_of(incoming_colour)
                     - offset_to_2bit(previous_colour)) % 256) % 4) % 4]

\* nextColourSeq_to_2bit with the idle check after the switch on
\* incoming_colour (mutant).
nextColourSeq_to_2bit_idle_last(incoming_colour, previous_colour, halfnibble_out) ==
    IF incoming_colour = DARK THEN [rc |-> -2, out |-> halfnibble_out]
    ELSE IF incoming_colour = YELLOW THEN [rc |-> 2, out |-> halfnibble_out]
    ELSE IF incoming_colour = WHITE THEN [rc |-> 1, out |-> halfnibble_out]
    ELSE IF incoming_colour = previous_colour THEN [rc |-> -1, out |-> halfnibble_out]
    ELSE [rc  |-> 0,
          out |-> halfnibble_of(nibblebase_of(incoming_colour),
                                offset_to_2bit(previous_colour))]

\* nextColourSeq_to_2bit whose DARK case reports an idling channel (mutant).
nextColourSeq_to_2bit_dark_idle(incoming_colour, previous_colour, halfnibble_out) ==
    IF incoming_colour = previous_colour THEN [rc |-> -1, out |-> halfnibble_out]
    ELSE IF incoming_colour = DARK THEN [rc |-> -1, out |-> halfnibble_out]
    ELSE IF incoming_colour = YELLOW THEN [rc |-> 2, out |-> halfnibble_out]
    ELSE IF incoming_colour = WHITE THEN [rc |-> 1, out |-> halfnibble_out]
    ELSE [rc  |-> 0,
          out |-> halfnibble_of(nibblebase_of(incoming_colour),
                                offset_to_2bit(previous_colour))]

\* nextColourSeq_to_2bit whose DARK case reports a mark (mutant).
nextColourSeq_to_2bit_dark_mark(incoming_colour, previous_colour, halfnibble_out) ==
    IF incoming_colour = previous_colour THEN [rc |-> -1, out |-> halfnibble_out]
    ELSE IF incoming_colour = DARK THEN [rc |-> 1, out |-> halfnibble_out]
    ELSE IF incoming_colour = YELLOW THEN [rc |-> 2, out |-> halfnibble_out]
    ELSE IF incoming_colour = WHITE THEN [rc |-> 1, out |-> halfnibble_out]
    ELSE [rc  |-> 0,
          out |-> halfnibble_of(nibblebase_of(incoming_colour),
                                offset_to_2bit(previous_colour))]

\* nextColourSeq_to_2bit: the return code and the content of *halfnibble_out
\* afterwards (halfnibble_out is its content before the call).
nextColourSeq_to_2bit(incoming_colour, previous_colour, halfnibble_out) ==
    IF incoming_colour = previous_colour THEN [rc |-> -1, out |-> halfnibble_out]
    ELSE IF incoming_colour = DARK THEN [rc |-> -2, out |-> halfnibble_out]
    ELSE IF incoming_colour = YELLOW THEN [rc |-> 2, out |-> halfnibble_out]
    ELSE IF incoming_colour = WHITE THEN [rc |-> 1, out |-> halfnibble_out]
    ELSE [rc  |-> 0,
          out |-> halfnibble_of(nibblebase_of(incoming_colour),
                                offset_to_2bit(previous_colour))]

\* The loop of fromColourSeq_get_uint8, from iteration i on.  The local
\* halfnibble_out is read only after a call that wrote it, so its content
\* before the call is immaterial (0 here).
RECURSIVE fromColourSeq_loop(_, _, _, _, _)
fromColourSeq_loop(seq, ptr, previous_colour, output, i) ==
    IF i >= 5 THEN [rc |-> 0, ptr |-> ptr, out |-> output]
    ELSE LET incoming_colour == seq[ptr]
             r == nextColourSeq_to_2bit(incoming_colour, previous_colour, 0)
         IN CASE r.rc = 2  -> [rc |-> 1, ptr |-> ptr + 1, out |-> output]
              [] r.rc = 1  -> [rc |-> 1, ptr |-> ptr + 1, out |-> output]
              [] r.rc = 0  -> fromColourSeq_loop(seq, ptr + 1, incoming_colour,
                                  BitOr(ShiftLeft2(output), r.out), i + 1)
              [] r.rc = -1 -> fromColourSeq_loop(seq, ptr + 1, incoming_colour,
                                  output, i + 1)
              [] r.rc = -2 -> [rc |-> -1, ptr |-> ptr + 1, out |-> output]

\* fromColourSeq_get_uint8 that reports success when the loop runs out
\* (mutant).
fromColourSeq_get_uint8_end_ok(seq, seq_ptr) ==
    LET previous_colour == IF seq_ptr = 0 THEN DARK ELSE seq[seq_ptr - 1]
        r == fromColourSeq_loop(seq, seq_ptr, previous_colour, 0, 0)
    IN IF r.rc = 0 THEN [r EXCEPT !.rc = 1] ELSE r

\* fromColourSeq_get_uint8 whose channel-closed case falls out of the loop
\* and reports what the end of the loop reports (mutant).
fromColourSeq_get_uint8_closed_as_end(seq, seq_ptr) ==
    LET previous_colour == IF seq_ptr = 0 THEN DARK ELSE seq[seq_ptr - 1]
        r == fromColourSeq_loop(seq, seq_ptr, previous_colour, 0, 0)
    IN IF r.rc = -1 THEN [r EXCEPT !.rc = 0] ELSE r

\* fromColourSeq_get_uint8 that returns on a mark before advancing the
\* cursor (mutant).
fromColourSeq_get_uint8_mark_unread(seq, seq_ptr) ==
    LET previous_colour == IF seq_ptr = 0 THEN DARK ELSE seq[seq_ptr - 1]
        r == fromColourSeq_loop(seq, seq_ptr, previous_colour, 0, 0)
    IN IF r.rc = 1 THEN [r EXCEPT !.ptr = r.ptr - 1] ELSE r

\* fromColourSeq_get_uint8: the return code, the new *seq_ptr and *output.
fromColourSeq_get_uint8(seq, seq_ptr) ==
    LET previous_colour == IF seq_ptr = 0 THEN DARK ELSE seq[seq_ptr - 1]
    IN fromColourSeq_loop(seq, seq_ptr, previous_colour, 0, 0)

(***************************************************************************)
(* State                                                                   *)
(***************************************************************************)
VARIABLES
    colourSeq,          \* the colour sequence, positions 0..SeqCap-1
    j,                  \* the encoder's seq_ptr
    k,                  \* the decoder's seq_ptr
    sent,               \* history: the bytes given to toColourSeq_uint8
    calls,              \* history: one record per fromColourSeq_get_uint8 call
    colour_prev,        \* nibble test: previous colour
    halfnibble_input,   \* nibble test: the 2 bits to send
    colour_curr,        \* nibble test: the colour on the channel
    halfnibble_output,  \* nibble test: the 2 bits received
    return_code,        \* nibble test: return of nextColourSeq_to_2bit
    pc,                 \* nibble test: position in the test
    streams             \* two further streams, each with its own sequence,
                        \* cursors and histories

seqVars == <<colourSeq, j, k, sent, calls>>

nibbleVars == <<colour_prev, halfnibble_input, colour_curr, halfnibble_output,
                return_code, pc>>

vars == <<colourSeq, j, k, sent, calls, colour_prev, halfnibble_input,
          colour_curr, halfnibble_output, return_code, pc, streams>>

\* memset(colourSeq, 0x00, ...)
EmptySeq == [n \in 0..(SeqCap - 1) |-> DARK]

StreamIds == {1, 2}

\* A stream before its first call: an empty sequence and cursors at 0.
FreshStream ==
    [colourSeq |-> EmptySeq, j |-> 0, k |-> 0, sent |-> <<>>, calls |-> <<>>]

\* The two further streams before their first call.
StreamsIdle == streams = [s \in StreamIds |-> FreshStream]

\* The nibble test before its first iteration.
NibbleIdle ==
    /\ colour_prev = DARK
    /\ halfnibble_input = 0
    /\ colour_curr = DARK
    /\ halfnibble_output = 0
    /\ return_code = 0
    /\ pc = "off"

\* The stream test of main: empty sequence, both cursors at 0.
Init ==
    /\ colourSeq = EmptySeq
    /\ j = 0
    /\ k = 0
    /\ sent = <<>>
    /\ calls = <<>>
    /\ NibbleIdle
    /\ StreamsIdle

(***************************************************************************)
(* Stream actions                                                          *)
(***************************************************************************)
\* toColourSeq_uint8(input, colourSeq, &j)
ToColourSeq(input) ==
    /\ Len(sent) < MaxBytes
    /\ j + 5 <= SeqCap
    /\ LET r == toColourSeq_uint8(input, colourSeq, j)
       IN /\ colourSeq' = r.seq
          /\ j' = r.ptr
    /\ sent' = Append(sent, input)
    /\ UNCHANGED <<k, calls>>
    /\ UNCHANGED nibbleVars
    /\ UNCHANGED streams

\* What one decoder call is recorded as: where it started, how far the
\* encoder had written, the colour before the start, the five colours from
\* the start on, and what the call returned.
CallRecord(seq, written, seq_ptr, r) ==
    [start  |-> seq_ptr,
     avail  |-> written,
     prev   |-> IF seq_ptr = 0 THEN DARK ELSE seq[seq_ptr - 1],
     window |-> [n \in 0..4 |-> seq[seq_ptr + n]],
     rc     |-> r.rc,
     out    |-> r.out,
     end    |-> r.ptr]

\* fromColourSeq_get_uint8(colourSeq, &k, &output_byte)
FromColourSeq ==
    /\ k + 5 <= SeqCap
    /\ LET r == fromColourSeq_get_uint8(colourSeq, k)
       IN /\ k' = r.ptr
          /\ calls' = Append(calls, CallRecord(colourSeq, j, k, r))
    /\ UNCHANGED <<colourSeq, j, sent>>
    /\ UNCHANGED nibbleVars
    /\ UNCHANGED streams

\* The decoding loop of main: it calls the decoder until a call returns 0.
MainDecode ==
    /\ \A i \in 1..Len(calls) : calls[i].rc # 0
    /\ FromColourSeq

\* The encoding calls of main, with the bytes drawn from InputBytes.
MainEncode == \E input \in InputBytes : ToColourSeq(input)

Next ==
    \/ MainEncode
    \/ MainDecode

Spec == Init /\ [][Next]_vars

(***************************************************************************)
(* The nibble test of main: for one previous colour and one 2-bit value,   *)
(* encode and decode; and, for the decoder alone, sense any colour and     *)
(* decode.  halfnibble_output is uninitialised before the first call.      *)
(***************************************************************************)
InitNibble ==
    /\ colourSeq = EmptySeq
    /\ j = 0
    /\ k = 0
    /\ sent = <<>>
    /\ calls = <<>>
    /\ colour_prev \in Colours
    /\ halfnibble_input \in 0..3
    /\ colour_curr = DARK
    /\ halfnibble_output \in UInt8
    /\ return_code = 0
    /\ pc = "start"
    /\ StreamsIdle

\* colour_curr = nextColourSeq_from_2bit(halfnibble_input, colour_prev)
NibbleEncode ==
    /\ pc = "start"
    /\ colour_curr' = nextColourSeq_from_2bit(halfnibble_input, colour_prev)
    /\ pc' = "encoded"
    /\ UNCHANGED <<colour_prev, halfnibble_input, halfnibble_output, return_code>>
    /\ UNCHANGED seqVars
    /\ UNCHANGED streams

\* The channel shows any colour.
NibbleSense ==
    /\ pc = "start"
    /\ colour_curr' \in Colours
    /\ pc' = "sensed"
    /\ UNCHANGED <<colour_prev, halfnibble_input, halfnibble_output, return_code>>
    /\ UNCHANGED seqVars
    /\ UNCHANGED streams

\* nextColourSeq_to_2bit(colour_curr, colour_prev, &halfnibble_output)
NibbleDecode ==
    /\ pc \in {"encoded", "sensed"}
    /\ LET r == nextColourSeq_to_2bit(colour_curr, colour_prev, halfnibble_output)
       IN /\ return_code' = r.rc
          /\ halfnibble_output' = r.out
    /\ pc' = IF pc = "encoded" THEN "decoded" ELSE "observed"
    /\ UNCHANGED <<colour_prev, halfnibble_input, colour_curr>>
    /\ UNCHANGED seqVars
    /\ UNCHANGED streams

NextNibble ==
    \/ NibbleEncode
    \/ NibbleSense
    \/ NibbleDecode

SpecNibble == InitNibble /\ [][NextNibble]_vars

(***************************************************************************)
(* One byte at a time: every byte value is encoded at cursor 0 or directly *)
(* after one previously encoded (and decoded) byte, and then decoded.      *)
(***************************************************************************)
ByteEncode ==
    /\ k = j
    /\ Len(sent) <= 1
    /\ \E input \in UInt8 : ToColourSeq(input)

ByteDecode ==
    /\ k < j
    /\ FromColourSeq

NextByte ==
    \/ ByteEncode
    \/ ByteDecode

SpecByte == Init /\ [][NextByte]_vars

(***************************************************************************)
(* The decoder on received colours: the first RxLen positions hold any     *)
(* colours, the rest is the zero fill.                                     *)
(***************************************************************************)
RxBuffers ==
    {[n \in 0..(SeqCap - 1) |-> IF n < RxLen THEN f[n] ELSE DARK] :
        f \in [0..(RxLen - 1) -> Colours]}

InitRx ==
    /\ colourSeq \in RxBuffers
    /\ j = RxLen
    /\ k = 0
    /\ sent = <<>>
    /\ calls = <<>>
    /\ NibbleIdle
    /\ StreamsIdle

\* The receiver decodes while unread colours remain.
RxDecode ==
    /\ k < j
    /\ FromColourSeq

NextRx == RxDecode

SpecRx == InitRx /\ [][NextRx]_vars

(***************************************************************************)
(* The decoder on one encoded byte observed with no-change observations:   *)
(* the m-th colour of the byte is seen 1 + dup[m] times in a row.          *)
(***************************************************************************)
RECURSIVE Cum(_, _)
Cum(dup, m) == IF m < 0 THEN 0 ELSE Cum(dup, m - 1) + 1 + dup[m]

Stretch(seq, dup) ==
    [n \in 0..(SeqCap - 1) |->
        IF n < Cum(dup, 4)
        THEN seq[CHOOSE m \in 0..4 : Cum(dup, m - 1) <= n /\ n < Cum(dup, m)]
        ELSE DARK]

InitDup ==
    /\ \E input \in UInt8, dup \in [0..4 -> 0..MaxDup] :
          /\ colourSeq = Stretch(toColourSeq_uint8(input, EmptySeq, 0).seq, dup)
          /\ j = Cum(dup, 4)
          /\ sent = <<input>>
    /\ k = 0
    /\ calls = <<>>
    /\ NibbleIdle
    /\ StreamsIdle

DupDecode ==
    /\ k < j
    /\ FromColourSeq

NextDup == DupDecode

SpecDup == InitDup /\ [][NextDup]_vars

(***************************************************************************)
(* The stream with its byte terminators re-marked: any Mark 1 (WHITE) the  *)
(* encoder wrote may be replaced by Mark 2 (YELLOW) before it is decoded.  *)
(***************************************************************************)
\* Bytes whose first 2-bit chunks are 0, 1, 2 and 3 (0x1B, 'H', 0xB1, 0xE4):
\* the colour after a terminator is decoded for every value.
MarkBytes == {27, 72, 177, 228}

MarkEncode == \E input \in MarkBytes : ToColourSeq(input)

\* The terminator of the i-th encoded byte (from 0) becomes YELLOW, as long
\* as the decoder has still to read it, as a colour or as the colour before
\* its cursor.
Remark ==
    /\ \E i \in 0..(Len(sent) - 1) :
          /\ 5 * i + 4 >= k - 1
          /\ colourSeq[5 * i + 4] = WHITE
          /\ colourSeq' = [colourSeq EXCEPT ![5 * i + 4] = YELLOW]
    /\ UNCHANGED <<j, k, sent, calls>>
    /\ UNCHANGED nibbleVars
    /\ UNCHANGED streams

MarkDecode ==
    /\ k < j
    /\ FromColourSeq

NextMark ==
    \/ MarkEncode
    \/ Remark
    \/ MarkDecode

SpecMark == Init /\ [][NextMark]_vars

(***************************************************************************)
(* Two streams, each with its own colour sequence and cursors, their       *)
(* encoder and decoder calls interleaved in any order.                     *)
(***************************************************************************)
\* Bytes the two streams draw from (0x1B, 'H', 0xE4).
TwoBytes == {27, 72, 228}

\* Number of bytes each of the two streams encodes.
MaxStreamBytes == 2

\* One static sequence and cursor for every caller (mutant).
StreamArg_static(s) == 1

\* The stream whose colourSeq and seq_ptr a call made for stream s works
\* on: the functions keep no state of their own and reach the sequence and
\* the cursor only through the pointers the caller passes.
StreamArg(s) == s

\* toColourSeq_uint8(input, colourSeq_s, &j_s)
TwoEncode(s, input) ==
    LET t  == StreamArg(s)
        st == streams[t]
        r  == toColourSeq_uint8(input, st.colourSeq, st.j)
    IN /\ Len(streams[s].sent) < MaxStreamBytes
       /\ st.j + 5 <= SeqCap
       /\ streams' = [streams EXCEPT ![t].colourSeq = r.seq,
                                     ![t].j = r.ptr,
                                     ![s].sent = Append(@, input)]
       /\ UNCHANGED seqVars
       /\ UNCHANGED nibbleVars

\* fromColourSeq_get_uint8(colourSeq_s, &k_s, &output_s), called while
\* stream s has unread colours.
TwoDecode(s) ==
    LET t  == StreamArg(s)
        st == streams[t]
        r  == fromColourSeq_get_uint8(st.colourSeq, st.k)
    IN /\ streams[s].k < streams[s].j
       /\ st.k + 5 <= SeqCap
       /\ streams' = [streams EXCEPT ![t].k = r.ptr,
                                     ![s].calls = Append(@,
                                         CallRecord(st.colourSeq, st.j, st.k, r))]
       /\ UNCHANGED seqVars
       /\ UNCHANGED nibbleVars

TwoEncodeAny == \E s \in StreamIds, input \in TwoBytes : TwoEncode(s, input)

TwoDecodeAny == \E s \in StreamIds : TwoDecode(s)

NextTwo ==
    \/ TwoEncodeAny
    \/ TwoDecodeAny

SpecTwo == Init /\ [][NextTwo]_vars

(***************************************************************************)
(* Properties                                                              *)
(***************************************************************************)

\* C1 (SpecNibble): half-nibble round trip.  For every previous colour and
\* every 2-bit value, decoding the colour the encoder emitted reports data
\* (return code 0) and the value received is the value sent.
C1_HalfNibbleRoundTrip ==
    pc = "decoded" =>
        /\ return_code = 0
        /\ halfnibble_output = halfnibble_input

\* The round trip through the wrap-around of the data cycle: after GREEN
\* the value 3 is sent as BLUE and received as 3.
C1_Witness ==
    /\ pc = "decoded"
    /\ colour_prev = GREEN
    /\ halfnibble_input = 3
    /\ colour_curr = BLUE
    /\ halfnibble_output = 3

\* C2 (SpecNibble): no repeat.  For every previous colour and every 2-bit
\* value the encoder returns one of the five data colours, and it differs
\* from the previous colour.
C2_NoRepeat ==
    pc \in {"encoded", "decoded"} =>
        /\ colour_curr \in DataColours
        /\ colour_curr # colour_prev

\* The encoder has emitted a colour after the data colour MAGENTA, whose
\* offset is the largest.
C2_Witness ==
    /\ pc = "encoded"
    /\ colour_prev = MAGENTA
    /\ halfnibble_input = 0
    /\ colour_curr = BLUE

\* C3 (SpecByte): byte round trip.  For every byte, encoded at cursor 0 or
\* directly after a previously encoded byte, the decoder called from the
\* same cursor returns success (1) with the byte as output, having consumed
\* four data colours and the mark WHITE.
C3_ByteRoundTrip ==
    \A i \in 1..Len(calls) :
        /\ calls[i].rc = 1
        /\ calls[i].out = sent[i]
        /\ calls[i].end = calls[i].start + 5
        /\ \A n \in 0..3 : calls[i].window[n] \in DataColours
        /\ calls[i].window[4] = WHITE

\* The byte 0x1B has been encoded after the byte 0xE4 and decoded from
\* cursor 5.
C3_Witness ==
    /\ Len(calls) = 2
    /\ sent = <<228, 27>>
    /\ calls[2].start = 5
    /\ calls[2].out = 27

\* A decoder call that was made when the encoder had already written the
\* whole of the byte it is to return, as was every call before it.
InStep(i) == \A m \in 1..i : calls[m].avail >= 5 * m

\* C4 (Spec): multi-byte framing.  For bytes encoded one after another into
\* the same sequence, the calls of the decoder from cursor 0 on return the
\* bytes in their order, each call succeeding and advancing the cursor by
\* exactly 5.
C4_MultiByteFraming ==
    \A i \in 1..Len(calls) :
        InStep(i) =>
            /\ calls[i].rc = 1
            /\ calls[i].out = sent[i]
            /\ calls[i].start = 5 * (i - 1)
            /\ calls[i].end = 5 * i

\* "HI" has been encoded and decoded.
C4_Witness ==
    /\ Len(calls) >= 2
    /\ InStep(2)
    /\ Len(sent) >= 2
    /\ sent[1] = 72
    /\ sent[2] = 73
    /\ calls[1].out = 72
    /\ calls[2].out = 73
    /\ k = 10

\* C5 (SpecDup): duplicate tolerance.  For every byte, when the colours of
\* its encoding are observed with any of them repeated, one call of the
\* decoder succeeds and returns the byte.
C5_DuplicateTolerance ==
    Len(calls) >= 1 =>
        /\ calls[1].rc = 1
        /\ calls[1].out = sent[1]

\* The first n positions of the sequence are data colours the encoder can
\* produce from cursor 0, and every later position is the DARK fill.
TruncatedAt(n) ==
    /\ \A m \in 0..(n - 1) :
          \E v \in 0..3 :
              colourSeq[m] = nextColourSeq_from_2bit(v,
                                 IF m = 0 THEN DARK ELSE colourSeq[m - 1])
    /\ \A m \in n..(SeqCap - 1) : colourSeq[m] = DARK

\* C6 as stated (SpecRx): truncated stream.  Decoding a sequence of one to
\* four encoder-produced data colours followed by the DARK fill reports the
\* framing error (return code 0).
C6_TruncatedIsFramingError ==
    \A n \in 1..4 :
        (TruncatedAt(n) /\ Len(calls) >= 1) => calls[1].rc = 0

\* C6 as amended (SpecRx): decoding a sequence of one to four
\* encoder-produced data colours followed by the DARK fill reports the
\* channel closed (return code -1), with the cursor just past the first
\* DARK colour.
C6_TruncatedIsChannelClosed ==
    \A n \in 1..4 :
        (TruncatedAt(n) /\ Len(calls) >= 1) =>
            /\ calls[1].rc = -1
            /\ calls[1].end = n + 1

\* A sequence cut after three data colours has been decoded.
C6_Witness ==
    /\ TruncatedAt(3)
    /\ Len(calls) >= 1
    /\ calls[1].start = 0
    /\ calls[1].rc = -1

\* The colour before position n of a call's window.
PrevAt(c, n) == IF n = 0 THEN c.prev ELSE c.window[n - 1]

\* Position n of the window is a mark colour read as a transition.
MarkTransition(c, n) ==
    /\ c.window[n] \in MarkColours
    /\ c.window[n] # PrevAt(c, n)

\* Position n of the window is DARK read after a colour that is not DARK.
DarkTransition(c, n) ==
    /\ c.window[n] = DARK
    /\ PrevAt(c, n) # DARK

\* C7 (SpecRx): channel closed mid-byte.  Whenever a call reads DARK after
\* a colour that is not DARK, no mark having been read before in that call,
\* it stops there and returns the channel-closed code -1.
C7_ChannelClosed ==
    \A i \in 1..Len(calls) :
        \A n \in 0..4 :
            ( /\ DarkTransition(calls[i], n)
              /\ \A m \in 0..(n - 1) :
                    /\ ~MarkTransition(calls[i], m)
                    /\ ~DarkTransition(calls[i], m) )
            => /\ calls[i].rc = -1
               /\ calls[i].end = calls[i].start + n + 1

\* A call has read two data colours and then DARK.
C7_Witness ==
    \E i \in 1..Len(calls) :
        /\ calls[i].window[0] \in DataColours
        /\ calls[i].window[1] \in DataColours
        /\ calls[i].window[0] # calls[i].window[1]
        /\ calls[i].window[2] = DARK
        /\ calls[i].rc = -1
        /\ calls[i].end = calls[i].start + 3

\* C8 (SpecRx): framing error on exhausted budget.  Whenever a call examines
\* its five colours without reading a mark and without the channel going
\* down, it returns the framing-error code 0, the cursor five further.
C8_FramingError ==
    \A i \in 1..Len(calls) :
        (\A n \in 0..4 :
            /\ ~MarkTransition(calls[i], n)
            /\ ~DarkTransition(calls[i], n))
        => /\ calls[i].rc = 0
           /\ calls[i].end = calls[i].start + 5

\* A call has read five data colours, each a transition.
C8_Witness ==
    \E i \in 1..Len(calls) :
        /\ \A n \in 0..4 :
              /\ calls[i].window[n] \in DataColours
              /\ calls[i].window[n] # PrevAt(calls[i], n)
        /\ calls[i].rc = 0

\* C9 (SpecNibble): idle detection.  A call of the half-nibble decoder with
\* the incoming colour equal to the previous one returns the idle code -1
\* and leaves the received value as it was.
C9_IdleDetection ==
    [][ ( /\ pc \in {"encoded", "sensed"}
          /\ pc' \in {"decoded", "observed"}
          /\ colour_curr = colour_prev )
        => ( /\ return_code' = -1
             /\ halfnibble_output' = halfnibble_output ) ]_vars

\* The decoder has been called with WHITE after WHITE.
C9_Witness ==
    /\ pc = "observed"
    /\ colour_curr = WHITE
    /\ colour_prev = WHITE
    /\ return_code = -1

\* C10 (SpecNibble): channel-down detection.  The half-nibble decoder
\* returns the channel-down code -2 exactly when the incoming colour is
\* DARK and the previous colour is not.
C10_ChannelDown ==
    pc \in {"decoded", "observed"} =>
        ((colour_curr = DARK /\ colour_prev # DARK) <=> return_code = -2)

\* The decoder has been called with DARK after the mark YELLOW.
C10_Witness ==
    /\ pc = "observed"
    /\ colour_curr = DARK
    /\ colour_prev = YELLOW
    /\ return_code = -2

\* A colour with Mark 2 read back as Mark 1.
AsMark1(c) == IF c = YELLOW THEN WHITE ELSE c

\* The sequence a call worked on, as the encoder wrote it: the colour before
\* the call's start and the five colours from it, every YELLOW being WHITE.
EncoderWritten(c) ==
    [n \in 0..(SeqCap - 1) |->
        IF n = c.start - 1 THEN AsMark1(c.prev)
        ELSE IF n >= c.start /\ n <= c.start + 4 THEN AsMark1(c.window[n - c.start])
        ELSE DARK]

\* C11 (SpecMark): marker interchangeability.  In an encoder-produced stream
\* with any of its WHITE terminators replaced by YELLOW, every decoder call
\* returns the code, the byte and the cursor it returns on the stream as the
\* encoder wrote it, and that is success with the byte sent, 5 positions on.
C11_MarkerInterchangeable ==
    \A i \in 1..Len(calls) :
        LET c == calls[i]
            r == fromColourSeq_get_uint8(EncoderWritten(c), c.start)
        IN /\ c.rc = r.rc
           /\ c.out = r.out
           /\ c.end = r.ptr
           /\ c.rc = 1
           /\ c.out = sent[i]
           /\ c.end = c.start + 5

\* The second byte has been decoded with YELLOW before it and YELLOW as its
\* terminator.
C11_Witness ==
    /\ Len(calls) >= 2
    /\ calls[2].prev = YELLOW
    /\ calls[2].window[4] = YELLOW
    /\ calls[2].out = 27
    /\ sent[1] = 228

\* C12 (SpecByte): emitted-stream invariant.  After any calls of the encoder
\* from the empty sequence, the written positions 0..j-1 hold no DARK, no two
\* adjacent positions hold the same colour, every position with index 4 mod 5
\* holds WHITE and every other written position holds a data colour.
C12_EmittedStream ==
    \A n \in 0..(j - 1) :
        /\ colourSeq[n] # DARK
        /\ (n > 0 => colourSeq[n] # colourSeq[n - 1])
        /\ (n % 5 = 4 => colourSeq[n] = WHITE)
        /\ (n % 5 # 4 => colourSeq[n] \in DataColours)

\* Two bytes have been written, the second one starting after WHITE with
\* the chunk 3 and going round the data cycle.
C12_Witness ==
    /\ j = 10
    /\ sent = <<0, 255>>
    /\ colourSeq[4] = WHITE
    /\ colourSeq[5] = RED
    /\ colourSeq[9] = WHITE

\* A stream run alone: the sequence and cursor after encoding the first n
\* of the bytes, from the empty sequence.
RECURSIVE SoloSeq(_, _)
SoloSeq(bytes, n) ==
    IF n = 0 THEN [seq |-> EmptySeq, ptr |-> 0]
    ELSE LET p == SoloSeq(bytes, n - 1)
         IN toColourSeq_uint8(bytes[n], p.seq, p.ptr)

\* C13 (SpecTwo): stream independence.  However the encoder and decoder
\* calls of two streams are interleaved, each stream holds exactly the
\* colours it holds when run alone, and its decoder calls return exactly
\* the codes, bytes and cursors they return when it is run alone.
C13_StreamIndependence ==
    \A s \in StreamIds :
        LET st   == streams[s]
            solo == SoloSeq(st.sent, Len(st.sent))
        IN /\ st.colourSeq = solo.seq
           /\ st.j = solo.ptr
           /\ \A i \in 1..Len(st.calls) :
                 LET c == st.calls[i]
                     r == fromColourSeq_get_uint8(solo.seq, 5 * (i - 1))
                 IN /\ c.start = 5 * (i - 1)
                    /\ c.rc = r.rc
                    /\ c.out = r.out
                    /\ c.end = r.ptr
                    /\ c.out = st.sent[i]
           /\ st.k = 5 * Len(st.calls)

\* Both streams have encoded two bytes, different ones, and decoded them.
C13_Witness ==
    /\ streams[1].sent = <<27, 228>>
    /\ streams[2].sent = <<72, 27>>
    /\ Len(streams[1].calls) = 2
    /\ Len(streams[2].calls) = 2
    /\ streams[1].calls[2].out = 228
    /\ streams[2].calls[2].out = 27
    /\ streams[1].colourSeq # streams[2].colourSeq

\* Bit n of the byte b.
Bit(b, n) == (b \div (2 ^ n)) % 2

\* C14 (SpecByte): encoder step and frame.  One call of the encoder for the
\* byte b at cursor j writes exactly the positions j..j+4 and advances the
\* cursor by 5; the m-th written colour (m = 0..3) is the encoder's colour
\* for the bits (7-2m, 6-2m) of b after the colour written just before it
\* (DARK at position 0), and the fifth is WHITE.
C14_EncoderStep ==
    [][ (j' # j) =>
          LET b == sent'[Len(sent')]
          IN /\ j' = j + 5
             /\ \A n \in 0..(SeqCap - 1) :
                   (n < j \/ n > j + 4) => colourSeq'[n] = colourSeq[n]
             /\ \A m \in 0..3 :
                   colourSeq'[j + m] =
                       nextColourSeq_from_2bit(
                           2 * Bit(b, 7 - 2 * m) + Bit(b, 6 - 2 * m),
                           IF j + m = 0 THEN DARK ELSE colourSeq'[j + m - 1])
             /\ colourSeq'[j + 4] = WHITE
             /\ \A m \in 0..4 : colourSeq'[j + m] # colourSeq[j + m] ]_vars

\* The byte 0x1B has been written at cursor 5, after the byte 0xE4:
\* BLUE CYAN BLUE MAGENTA WHITE.
C14_Witness ==
    /\ j = 10
    /\ sent = <<228, 27>>
    /\ colourSeq[5] = BLUE
    /\ colourSeq[6] = CYAN
    /\ colourSeq[7] = BLUE
    /\ colourSeq[8] = MAGENTA
    /\ colourSeq[9] = WHITE

\* C15 as stated (SpecNibble): the decoder is the exact inverse of the
\* encoder.  For every previous colour and every incoming colour, when the
\* decoder reports data with value v, the encoder's colour for v after that
\* previous colour is the incoming colour.
C15_ExactInverse ==
    (pc \in {"decoded", "observed"} /\ return_code = 0) =>
        nextColourSeq_from_2bit(halfnibble_output, colour_prev) = colour_curr

\* The one transition decoded as data that the encoder never produces:
\* MAGENTA after a colour of offset 0.
Unencodable(incoming_colour, previous_colour) ==
    /\ incoming_colour = MAGENTA
    /\ previous_colour \in {DARK, YELLOW, WHITE}

\* C15 as amended (SpecNibble): when the decoder reports data with value v,
\* the encoder's colour for v after the previous colour is the incoming
\* colour, except for MAGENTA after DARK, YELLOW or WHITE, which is decoded
\* as the value 0, the value of BLUE after those colours.
C15_InverseOnEncodable ==
    (pc \in {"decoded", "observed"} /\ return_code = 0) =>
        IF Unencodable(colour_curr, colour_prev)
        THEN /\ halfnibble_output = 0
             /\ nextColourSeq_from_2bit(halfnibble_output, colour_prev) = BLUE
        ELSE nextColourSeq_from_2bit(halfnibble_output, colour_prev) = colour_curr

\* The decoder has read GREEN after RED as the value 2, across the
\* wrap-around of the data cycle.
C15_Witness ==
    /\ pc = "observed"
    /\ colour_prev = RED
    /\ colour_curr = GREEN
    /\ return_code = 0
    /\ halfnibble_output = 2

\* Position n of the window ends the call: a mark or DARK read as a
\* transition.
Terminates(c, n) == MarkTransition(c, n) \/ DarkTransition(c, n)

\* Position n of the window is a data colour read as a transition.
DataTransition(c, n) ==
    /\ c.window[n] \in DataColours
    /\ c.window[n] # PrevAt(c, n)

\* The 2-bit value of the data transition at position n: the value the
\* encoder sends as that colour after the colour before it (0 for the
\* transition the encoder never produces).
DataValue(c, n) ==
    IF Unencodable(c.window[n], PrevAt(c, n)) THEN 0
    ELSE CHOOSE v \in 0..3 :
            nextColourSeq_from_2bit(v, PrevAt(c, n)) = c.window[n]

\* The values of the data transitions at the positions before n, the first
\* one most significant.
RECURSIVE Packed(_, _)
Packed(c, n) ==
    IF n = 0 THEN 0
    ELSE IF DataTransition(c, n - 1)
         THEN 4 * Packed(c, n - 1) + DataValue(c, n - 1)
         ELSE Packed(c, n - 1)

\* The number of data transitions at the positions before n.
DataCount(c, n) == Cardinality({m \in 0..(n - 1) : DataTransition(c, m)})

\* C16 (SpecRx): early marker.  A call returns success as soon as it reads
\* a mark (WHITE or YELLOW) as a transition, however many data colours came
\* before it in the call; the output is the values of those data colours
\* packed most significant first into the low bits, the upper bits zero (0
\* when there is none), and the cursor is just past the mark.
C16_EarlyMarker ==
    \A i \in 1..Len(calls) :
        \A n \in 0..4 :
            ( /\ MarkTransition(calls[i], n)
              /\ \A m \in 0..(n - 1) : ~Terminates(calls[i], m) )
            => /\ calls[i].rc = 1
               /\ calls[i].end = calls[i].start + n + 1
               /\ calls[i].out = Packed(calls[i], n)
               /\ calls[i].out < 4 ^ DataCount(calls[i], n)

\* A call has read the values 3 and 2 (RED, then GREEN after RED) and then
\* the mark YELLOW: output 0x0E.
C16_Witness ==
    /\ Len(calls) >= 1
    /\ calls[1].start = 0
    /\ calls[1].window[0] = RED
    /\ calls[1].window[1] = GREEN
    /\ calls[1].window[2] = YELLOW
    /\ calls[1].rc = 1
    /\ calls[1].out = 14
    /\ calls[1].end = 3

\* The number of colours a call examines: up to and including the first
\* one that ends it, or all five.
Examined(c) ==
    IF \E n \in 0..4 : Terminates(c, n)
    THEN 1 + CHOOSE n \in 0..4 :
                 /\ Terminates(c, n)
                 /\ \A m \in 0..(n - 1) : ~Terminates(c, m)
    ELSE 5

\* C17 (SpecRx): decoder progress and cursor accounting.  Every call
\* examines at least 1 and at most 5 colours and, on every return path,
\* leaves the cursor advanced by exactly the number examined, so that the
\* next call starts there with the last colour examined as its previous
\* colour.
C17_CursorAccounting ==
    /\ \A i \in 1..Len(calls) :
          LET c == calls[i]
          IN /\ c.rc \in {1, 0, -1}
             /\ c.end - c.start \in 1..5
             /\ c.end - c.start = Examined(c)
             /\ i > 1 =>
                   /\ c.start = calls[i - 1].end
                   /\ c.prev = calls[i - 1].window[Examined(calls[i - 1]) - 1]
    /\ Len(calls) >= 1 => k = calls[Len(calls)].end

\* A first call stopped by a mark after two data colours, and a second call
\* that started behind that mark and ran into the DARK fill.
C17_Witness ==
    /\ Len(calls) = 2
    /\ calls[1].rc = 1
    /\ calls[1].end = 3
    /\ calls[2].start = 3
    /\ calls[2].prev = WHITE
    /\ calls[2].window[0] \in DataColours
    /\ calls[2].rc = -1
    /\ k = calls[2].end

\* The encoder has computed its offset from colour_prev.
EncoderOffsetUsed == pc \in {"encoded", "decoded"}

\* The decoder has computed its offset from colour_prev (it returns before
\* that when the channel idles).
DecoderOffsetUsed == pc \in {"decoded", "observed"} /\ return_code # -1

\* C18 as stated (SpecNibble): offset range.  For every previous colour the
\* offset computed from it, in the encoder and in the decoder, is one of
\* 0, 1, 2, 3, 4.
C18_OffsetBelow5 ==
    /\ EncoderOffsetUsed => offset_from_2bit(colour_prev) \in 0..4
    /\ DecoderOffsetUsed => offset_to_2bit(colour_prev) \in 0..4

\* C18 as amended (SpecNibble): for every previous colour the offset
\* computed from it is one of 0..5, the same in the encoder and in the
\* decoder, and it is 5 exactly for MAGENTA; only its remainder modulo 5 is
\* in 0..4.
C18_OffsetUpTo5 ==
    /\ EncoderOffsetUsed =>
          /\ offset_from_2bit(colour_prev) \in 0..5
          /\ offset_from_2bit(colour_prev) = 5 <=> colour_prev = MAGENTA
          /\ offset_from_2bit(colour_prev) = offset_to_2bit(colour_prev)
    /\ DecoderOffsetUsed =>
          /\ offset_to_2bit(colour_prev) \in 0..5
          /\ offset_to_2bit(colour_prev) = 5 <=> colour_prev = MAGENTA
          /\ offset_to_2bit(colour_prev) = offset_from_2bit(colour_prev)

\* The value 3 has been sent after MAGENTA, with offset 5, as RED, and
\* received.
C18_Witness ==
    /\ pc = "decoded"
    /\ colour_prev = MAGENTA
    /\ halfnibble_input = 3
    /\ colour_curr = RED
    /\ return_code = 0

====
